---- MODULE Spec2Model ----
(***************************************************************************)
(* Model of the SelfObject prototype-object evaluator.                     *)
(*                                                                         *)
(* Two implementations of class SelfObject are modelled side by side:      *)
(*   - src/SelfObject.js       (breadth-first sendAMessage, throwing       *)
(*                              evaluate); operators keep the source names *)
(*   - src/unnamed/part_000    (recursive depth-first sendAMessage,        *)
(*                              non-throwing evaluate); operators carry    *)
(*                              the suffix P0                              *)
(* constructor, copy, assignSlot, makeParent and assignParentSlot are      *)
(* textually identical in both files and are modelled once.                *)
(*                                                                         *)
(* JavaScript objects are modelled by reference: heap.objs[i] is object i, *)
(* whose slots / parents / messages fields are references into the tables  *)
(* heap.slotsT / heap.parentsT / heap.msgsT, so that two objects sharing   *)
(* one container is a state the model can express.                         *)
(***************************************************************************)
EXTENDS Integers, Sequences, FiniteSets, TLC

\* ---------------------------------------------------------------- bounds
NumObjs    == 2    \* objects of the driver that starts from fresh objects
MaxOps     == 1    \* mutation calls the driver makes after its set-up
MaxMsgs    == 2    \* messages the driver pushes on one message list

\* ---------------------------------------------------------------- values
\* Object references are the positive integers; the other values a slot
\* read can give are encoded below them.
Undef  == 0               \* undefined: no own key and nothing inherited
JsNull == -1              \* the JS null value (also: primitive not set)
\* The slots container is an object literal, {}: a key it does not have of
\* its own is looked up in Object.prototype. ProtoFn is the function found
\* there (Object for "constructor"): truthy, and not a SelfObject, so it has
\* no evaluate, copy, sendAMessage, slots or parents.
ProtoFn == -2
NoFn   == "null"          \* primitiveFn not set
AddOne == "addOne"        \* the native function of the bundled example
ParamName == "parameter"
IncName   == "increment"
CtorName  == "constructor"
SlotNames == {"b", "c", IncName}      \* names the examples use for slots
\* The names {} inherits a function for; "constructor" stands for all of
\* them (toString, valueOf, hasOwnProperty, ... read the same way).
InheritedNames == {CtorName}
Names     == SlotNames \cup {ParamName} \cup InheritedNames
\* Primitive payloads. The numbers stand for themselves; the strings of the
\* objA/objB/objC example are numbered so that s + 1 (JS appends "1" to a
\* string) is again a payload of the model.
Five == 5
IamA == 1000
IamB == 2000
IamC == 3000

Truthy(v) == v # Undef /\ v # JsNull
IsSelfObject(v) == v >= 1             \* v instanceof SelfObject

\* ---------------------------------------------------------------- heap
EmptyHeap == [objs |-> <<>>, slotsT |-> <<>>, parentsT |-> <<>>, msgsT |-> <<>>]

ObjIds(H) == 1..Len(H.objs)
SlotsOf(H, o)    == H.slotsT[H.objs[o].slots]
ParentsOf(H, o)  == H.parentsT[H.objs[o].parents]
MessagesOf(H, o) == H.msgsT[H.objs[o].messages]
\* The own property `n` of o.slots (Undef: o.slots has no own key n).
Own(H, o, n)     == SlotsOf(H, o)[n]
\* this.slots[name]: the own property, else what Object.prototype gives.
Get(H, o, n) ==
  IF Own(H, o, n) # Undef THEN Own(H, o, n)
  ELSE IF n \in InheritedNames THEN ProtoFn
  ELSE Undef

\* new SelfObject(): fresh containers, primitive and primitiveFn null.
NewSelfObject(H) ==
  LET k == Len(H.objs) + 1 IN
  [objs     |-> Append(H.objs, [slots |-> k, parents |-> k, messages |-> k,
                                primitive |-> JsNull, primitiveFn |-> NoFn]),
   slotsT   |-> Append(H.slotsT, [n \in Names |-> Undef]),
   parentsT |-> Append(H.parentsT, <<>>),
   msgsT    |-> Append(H.msgsT, <<>>)]

\* Mutant of copy: the new object is given the source's slots container
\* itself instead of a new container with the same content.
copy_SharedSlots(H, o) ==
  LET H1 == NewSelfObject(H)
      k  == Len(H1.objs)
  IN [h |-> [H1 EXCEPT !.objs[k].slots = H.objs[o].slots,
                       !.parentsT[k] = ParentsOf(H, o),
                       !.msgsT[k]    = MessagesOf(H, o),
                       !.objs[k].primitive   = H.objs[o].primitive,
                       !.objs[k].primitiveFn = H.objs[o].primitiveFn],
      ret |-> k]

\* copy(): a new object whose three containers are new and hold the same
\* content; primitive and primitiveFn are carried over.
copy(H, o) ==
  LET H1 == NewSelfObject(H)
      k  == Len(H1.objs)
  IN [h |-> [H1 EXCEPT !.slotsT[k]   = SlotsOf(H, o),
                       !.parentsT[k] = ParentsOf(H, o),
                       !.msgsT[k]    = MessagesOf(H, o),
                       !.objs[k].primitive   = H.objs[o].primitive,
                       !.objs[k].primitiveFn = H.objs[o].primitiveFn],
      ret |-> k]

\* Mutant of assignSlot: a name whose slot is overwritten is taken out of
\* the parents (the marker is revalidated).
assignSlot_Revalidate(H, o, n, v) ==
  [H EXCEPT !.slotsT[H.objs[o].slots][n] = v,
            !.parentsT[H.objs[o].parents] =
               IF Own(H, o, n) # Undef /\ Own(H, o, n) # v
               THEN SelectSeq(@, LAMBDA x : x # n) ELSE @]

\* this.slots[name] = obj
assignSlot(H, o, n, v) ==
  [H EXCEPT !.slotsT[H.objs[o].slots][n] = v]

\* Set.prototype.add: insertion order, an element already present stays put.
SetAdd(s, n) == IF \E i \in 1..Len(s) : s[i] = n THEN s ELSE Append(s, n)

makeParent(H, o, n) ==
  IF Truthy(Get(H, o, n))
  THEN [H EXCEPT !.parentsT[H.objs[o].parents] = SetAdd(@, n)]
  ELSE H

assignParentSlot(H, o, n, v) == makeParent(assignSlot(H, o, n, v), o, n)

\* [...obj.parents].map(p => obj.slots[p])
ParentRefs(H, o) ==
  [i \in 1..Len(ParentsOf(H, o)) |-> Get(H, o, ParentsOf(H, o)[i])]

\* ------------------------------------------------------- call results
\* What a call gives back: the heap after it, the value returned, the error
\* thrown ("none" if it returned) and the message name the Error carries.
\* The other fields are instrumentation:
\*   holder  - the object whose slot a message send selected (JsNull: none)
\*   visited - the visited set of part_000's sendAMessage on return
\*   log     - what the call did, in order: "examine" (the parent search
\*             looks at an ancestor), "hit" (a slot is selected), "native"
\*             (a native function is invoked on o; r is what it read from
\*             the "parameter" slot), "send" (evaluate sends a
\*             message: r is what the send returned, err what it threw,
\*             sub what it did).
NoErr == "none"
Ret(H, v, lg) ==
  [h |-> H, ret |-> v, err |-> NoErr, msg |-> "", log |-> lg,
   holder |-> JsNull, visited |-> {}]
Throw(H, e, m, lg) ==
  [h |-> H, ret |-> JsNull, err |-> e, msg |-> m, log |-> lg,
   holder |-> JsNull, visited |-> {}]
Ev(e, o, n) ==
  [e |-> e, o |-> o, n |-> n, r |-> JsNull, err |-> NoErr, sub |-> <<>>]
SendEv(o, n, r) ==
  [e |-> "send", o |-> o, n |-> n, r |-> r.ret, err |-> r.err, sub |-> r.log]
WithLog(r, lg)        == [r EXCEPT !.log = lg \o @]

\* A frame nested deeper than the number of objects the call started with
\* (plus the transient copy it evaluates) re-enters an object whose
\* evaluation is still running; nothing it reads has changed, so the
\* recursion never ends and the engine throws RangeError (stack overflow).
StackLimit(H) == Len(H.objs) + 1

\* ------------------------------------------------- native functions
\* The one native function the repository defines (the addOne of the bundled
\* example): reads self.slots["parameter"], allocates the result object and
\* stores param.primitive + 1 in it. Reading .primitive of undefined or null
\* throws TypeError; null + 1 is 1 in JavaScript.
addOne(H, self) ==
  LET param == Get(H, self, ParamName)
      H1    == NewSelfObject(H)
      k     == Len(H1.objs)
  IN IF ~Truthy(param)
     THEN Throw(H1, "TypeError", "", <<[Ev("native", self, "") EXCEPT !.r = param]>>)
     ELSE Ret([H1 EXCEPT !.objs[k].primitive =
                 (IF H.objs[param].primitive = JsNull THEN 0
                  ELSE H.objs[param].primitive) + 1],
              k, <<[Ev("native", self, "") EXCEPT !.r = param]>>)

\* ------------------------------------------ src/SelfObject.js methods
RECURSIVE evaluate(_, _, _)
RECURSIVE evaluate_ShiftMessages(_, _, _)
RECURSIVE evaluate_PrimitiveSelf(_, _, _)
RECURSIVE evaluate_FnFirst(_, _, _)
RECURSIVE evaluateChain(_, _, _, _, _, _, _)
RECURSIVE sendAMessage(_, _, _, _)
RECURSIVE parentSearch(_, _, _, _, _)
RECURSIVE parentSearchWithParameters(_, _, _, _, _)

\* The while loop of sendAMessage: the queue is consumed from the front, an
\* absent or visited entry is skipped, the first entry holding a truthy slot
\* `name` is the holder, otherwise the entry's parents go to the back of the
\* queue. holder = JsNull: the queue ran out. An entry that is not a
\* SelfObject (an inherited function a parent name resolved to) has no
\* slots: reading current.slots[name] throws TypeError.
parentSearch(H, queue, visited, name, log) ==
  IF queue = <<>> THEN [holder |-> JsNull, err |-> NoErr, log |-> log]
  ELSE LET current == Head(queue) IN
       IF ~Truthy(current) \/ current \in visited
       THEN parentSearch(H, Tail(queue), visited, name, log)
       ELSE IF ~IsSelfObject(current)
       THEN [holder |-> JsNull, err |-> "TypeError", log |-> log]
       ELSE IF Truthy(Get(H, current, name))
       THEN [holder |-> current, err |-> NoErr,
             log |-> log \o <<Ev("examine", current, name), Ev("hit", current, name)>>]
       ELSE parentSearch(H, Tail(queue) \o ParentRefs(H, current),
                         visited \cup {current}, name,
                         Append(log, Ev("examine", current, name)))

\* The object whose slot `name` a message to o selects: o itself, else the
\* holder the parent search finds, else JsNull.
lookup(H, o, name) ==
  IF Truthy(Get(H, o, name))
  THEN [holder |-> o, err |-> NoErr, log |-> <<Ev("hit", o, name)>>]
  ELSE parentSearch(H, ParentRefs(H, o), {}, name, <<>>)

\* A selected slot that reads as an inherited function has no evaluate:
\* the call this.slots[name].evaluate() throws TypeError.
sendAMessage(H, o, name, d) ==
  LET f == lookup(H, o, name) IN
  IF f.err # NoErr THEN Throw(H, f.err, "", f.log)
  ELSE IF f.holder = JsNull THEN Ret(H, JsNull, f.log)
  ELSE IF ~IsSelfObject(Get(H, f.holder, name))
  THEN [Throw(H, "TypeError", "", f.log) EXCEPT !.holder = f.holder]
  ELSE [WithLog(evaluate(H, Get(H, f.holder, name), d), f.log)
          EXCEPT !.holder = f.holder]

\* The for loop of evaluate over this.messages, from index i on.
evaluateChain(H, currentObj, msgs, i, result, log, d) ==
  IF i > Len(msgs) THEN Ret(H, result, log)
  ELSE LET r  == sendAMessage(H, currentObj, msgs[i], d - 1)
           lg == Append(log, SendEv(currentObj, msgs[i], r))
       IN IF r.err # NoErr THEN Throw(r.h, r.err, r.msg, lg)
          ELSE IF Truthy(r.ret)
          THEN evaluateChain(r.h, r.ret, msgs, i + 1, r.ret, lg, d)
          ELSE Throw(r.h, "MessageNotFound", msgs[i], lg)

\* Mutant of evaluate: the native function is looked at before the primitive.
evaluate_FnFirst(H, o, d) ==
  IF d <= 0 THEN Throw(H, "RangeError", "", <<>>)
  ELSE IF H.objs[o].primitiveFn # NoFn
  THEN addOne(H, o)
  ELSE IF H.objs[o].primitive # JsNull
  THEN LET c == copy(H, o) IN Ret(c.h, c.ret, <<>>)
  ELSE IF Len(MessagesOf(H, o)) > 0
  THEN LET c == copy(H, o) IN
       evaluateChain(c.h, c.ret, MessagesOf(H, o), 1, JsNull, <<>>, d)
  ELSE Ret(H, o, <<>>)

\* Mutant of evaluate: an object with a primitive evaluates to itself.
evaluate_PrimitiveSelf(H, o, d) ==
  IF d <= 0 THEN Throw(H, "RangeError", "", <<>>)
  ELSE IF H.objs[o].primitive # JsNull
  THEN Ret(H, o, <<>>)
  ELSE IF H.objs[o].primitiveFn # NoFn
  THEN addOne(H, o)
  ELSE IF Len(MessagesOf(H, o)) > 0
  THEN LET c == copy(H, o) IN
       evaluateChain(c.h, c.ret, MessagesOf(H, o), 1, JsNull, <<>>, d)
  ELSE Ret(H, o, <<>>)

\* Mutant of evaluate: the chain loop takes the first message off the
\* object's own message list (this.messages.shift()).
evaluate_ShiftMessages(H, o, d) ==
  IF d <= 0 THEN Throw(H, "RangeError", "", <<>>)
  ELSE IF H.objs[o].primitive # JsNull
  THEN LET c == copy(H, o) IN Ret(c.h, c.ret, <<>>)
  ELSE IF H.objs[o].primitiveFn # NoFn
  THEN addOne(H, o)
  ELSE IF Len(MessagesOf(H, o)) > 0
  THEN LET c == copy(H, o) IN
       evaluateChain([c.h EXCEPT !.msgsT[H.objs[o].messages] = Tail(@)],
                     c.ret, MessagesOf(H, o), 1, JsNull, <<>>, d)
  ELSE Ret(H, o, <<>>)

evaluate(H, o, d) ==
  IF d <= 0 THEN Throw(H, "RangeError", "", <<>>)
  ELSE IF H.objs[o].primitive # JsNull
  THEN LET c == copy(H, o) IN Ret(c.h, c.ret, <<>>)
  ELSE IF H.objs[o].primitiveFn # NoFn
  THEN addOne(H, o)
  ELSE IF Len(MessagesOf(H, o)) > 0
  THEN LET c == copy(H, o) IN
       evaluateChain(c.h, c.ret, MessagesOf(H, o), 1, JsNull, <<>>, d)
  ELSE Ret(H, o, <<>>)

\* Mutant of evaluateWithParameter: the parameter is bound on the slot's
\* object itself, which is then evaluated.
evaluateWithParameter_InPlace(H, slotObj, paramObj, d) ==
  evaluate(assignSlot(H, slotObj, ParamName, paramObj), slotObj, d)

\* Mutant of evaluateWithParameter: the copy is evaluated without the
\* parameter being bound on it.
evaluateWithParameter_Unbound(H, slotObj, paramObj, d) ==
  LET c == copy(H, slotObj) IN evaluate(c.h, c.ret, d)

\* The three statements run on a matched slot: copy it, bind the parameter
\* on the copy, evaluate the copy.
evaluateWithParameter(H, slotObj, paramObj, d) ==
  LET c == copy(H, slotObj) IN
  evaluate(assignSlot(c.h, c.ret, ParamName, paramObj), c.ret, d)

\* The while loop of sendAMessageWithParameters (its own copy of the loop).
parentSearchWithParameters(H, queue, visited, name, log) ==
  IF queue = <<>> THEN [holder |-> JsNull, err |-> NoErr, log |-> log]
  ELSE LET current == Head(queue) IN
       IF ~Truthy(current) \/ current \in visited
       THEN parentSearchWithParameters(H, Tail(queue), visited, name, log)
       ELSE IF ~IsSelfObject(current)
       THEN [holder |-> JsNull, err |-> "TypeError", log |-> log]
       ELSE IF Truthy(Get(H, current, name))
       THEN [holder |-> current, err |-> NoErr,
             log |-> log \o <<Ev("examine", current, name), Ev("hit", current, name)>>]
       ELSE parentSearchWithParameters(H, Tail(queue) \o ParentRefs(H, current),
                         visited \cup {current}, name,
                         Append(log, Ev("examine", current, name)))

lookupWithParameters(H, o, name) ==
  IF Truthy(Get(H, o, name))
  THEN [holder |-> o, err |-> NoErr, log |-> <<Ev("hit", o, name)>>]
  ELSE parentSearchWithParameters(H, ParentRefs(H, o), {}, name, <<>>)

\* (an inherited function has no copy: TypeError)
sendAMessageWithParameters(H, o, name, paramObj, d) ==
  LET f == lookupWithParameters(H, o, name) IN
  IF f.err # NoErr THEN Throw(H, f.err, "", f.log)
  ELSE IF f.holder = JsNull THEN Ret(H, JsNull, f.log)
  ELSE IF ~IsSelfObject(Get(H, f.holder, name))
  THEN [Throw(H, "TypeError", "", f.log) EXCEPT !.holder = f.holder]
  ELSE [WithLog(evaluateWithParameter(H, Get(H, f.holder, name), paramObj, d), f.log)
          EXCEPT !.holder = f.holder]

\* --------------------------------------- src/unnamed/part_000 methods
RECURSIVE evaluateP0(_, _, _)
RECURSIVE evaluateChainP0(_, _, _, _, _, _, _)
RECURSIVE sendAMessageP0(_, _, _, _, _)
RECURSIVE parentLoopP0(_, _, _, _, _, _, _)
RECURSIVE sendAMessageWithParametersP0(_, _, _, _, _)
RECURSIVE parentLoopWithParametersP0(_, _, _, _, _, _, _)

\* sendAMessage(name, visited): direct slot, else mark this visited and ask
\* each unvisited parent in turn, depth first; the visited set is shared by
\* the whole recursion. The result carries the visited set on return.
\* A slot or parent that reads as an inherited function has neither
\* evaluate nor sendAMessage: calling it throws TypeError.
sendAMessageP0(H, o, name, visited, d) ==
  IF Truthy(Get(H, o, name)) /\ ~IsSelfObject(Get(H, o, name))
  THEN [Throw(H, "TypeError", "", <<Ev("hit", o, name)>>)
          EXCEPT !.visited = visited, !.holder = o]
  ELSE IF Truthy(Get(H, o, name))
  THEN [WithLog(evaluateP0(H, Get(H, o, name), d), <<Ev("hit", o, name)>>)
          EXCEPT !.visited = visited, !.holder = o]
  ELSE parentLoopP0(H, o, name, 1, visited \cup {o}, <<>>, d)

\* The for loop of sendAMessage over this.parents, from index i on.
parentLoopP0(H, o, name, i, visited, log, d) ==
  IF i > Len(ParentsOf(H, o))
  THEN [Ret(H, JsNull, log) EXCEPT !.visited = visited]
  ELSE LET parent == Get(H, o, ParentsOf(H, o)[i]) IN
       IF Truthy(parent) /\ parent \notin visited /\ ~IsSelfObject(parent)
       THEN [Throw(H, "TypeError", "", log) EXCEPT !.visited = visited]
       ELSE IF Truthy(parent) /\ parent \notin visited
       THEN LET r  == sendAMessageP0(H, parent, name, visited, d)
                lg == Append(log, Ev("examine", parent, name)) \o r.log
            IN IF r.err # NoErr \/ Truthy(r.ret)
               THEN [r EXCEPT !.log = lg]
               ELSE parentLoopP0(r.h, o, name, i + 1, r.visited, lg, d)
       ELSE parentLoopP0(H, o, name, i + 1, visited, log, d)

\* The for loop of evaluate over copy.messages: every message goes to the
\* copy, a miss is not detected, the last result (null on a miss) is kept.
evaluateChainP0(H, cp, msgs, i, result, log, d) ==
  IF i > Len(msgs) THEN Ret(H, result, log)
  ELSE LET r  == sendAMessageP0(H, cp, msgs[i], {}, d - 1)
           lg == Append(log, SendEv(cp, msgs[i], r))
       IN IF r.err # NoErr THEN Throw(r.h, r.err, r.msg, lg)
          ELSE evaluateChainP0(r.h, cp, msgs, i + 1, r.ret, lg, d)

evaluateP0(H, o, d) ==
  IF d <= 0 THEN Throw(H, "RangeError", "", <<>>)
  ELSE IF H.objs[o].primitive # JsNull
  THEN LET c == copy(H, o) IN Ret(c.h, c.ret, <<>>)
  ELSE IF H.objs[o].primitiveFn # NoFn
  THEN LET c == copy(H, o) IN addOne(c.h, c.ret)
  ELSE IF Len(MessagesOf(H, o)) > 0
  THEN LET c == copy(H, o) IN
       evaluateChainP0(c.h, c.ret, MessagesOf(c.h, c.ret), 1, c.ret, <<>>, d)
  ELSE Ret(H, o, <<>>)

evaluateWithParameterP0(H, slotObj, paramObj, d) ==
  LET c == copy(H, slotObj) IN
  evaluateP0(assignSlot(c.h, c.ret, ParamName, paramObj), c.ret, d)

\* sendAMessageWithParameters: direct slot, else ask each parent in turn,
\* depth first, with no visited set. k is the room left on the call stack
\* for the recursion through parents: a path of more parents than there are
\* objects runs round a cycle, which the recursion never leaves.
sendAMessageWithParametersP0(H, o, name, paramObj, k) ==
  IF k <= 0 THEN Throw(H, "RangeError", "", <<>>)
  ELSE IF Truthy(Get(H, o, name)) /\ ~IsSelfObject(Get(H, o, name))
  THEN [Throw(H, "TypeError", "", <<Ev("hit", o, name)>>) EXCEPT !.holder = o]
  ELSE IF Truthy(Get(H, o, name))
  THEN [WithLog(evaluateWithParameterP0(H, Get(H, o, name), paramObj, StackLimit(H)),
                <<Ev("hit", o, name)>>)
          EXCEPT !.holder = o]
  ELSE parentLoopWithParametersP0(H, o, name, paramObj, 1, <<>>, k)

parentLoopWithParametersP0(H, o, name, paramObj, i, log, k) ==
  IF i > Len(ParentsOf(H, o)) THEN Ret(H, JsNull, log)
  ELSE LET parent == Get(H, o, ParentsOf(H, o)[i]) IN
       IF Truthy(parent) /\ ~IsSelfObject(parent)
       THEN Throw(H, "TypeError", "", log)
       ELSE IF Truthy(parent)
       THEN LET r  == sendAMessageWithParametersP0(H, parent, name, paramObj, k - 1)
                lg == Append(log, Ev("examine", parent, name)) \o r.log
            IN IF r.err # NoErr \/ Truthy(r.ret)
               THEN [r EXCEPT !.log = lg]
               ELSE parentLoopWithParametersP0(r.h, o, name, paramObj, i + 1, lg, k)
       ELSE parentLoopWithParametersP0(H, o, name, paramObj, i + 1, log, k)

\* ------------------------------------------------------------- driver
\* The driver is the code calling the class (the "Example usage" blocks):
\* it constructs objects, sets primitive / primitiveFn / messages directly,
\* calls the mutation methods and then evaluates or sends messages.
VARIABLES heap,   \* the objects the driver can reach
          last,   \* the most recent call: what was called and what it gave
          nops,   \* mutation calls made since the set-up
          result, \* the driver's variable `result`: Undef until assigned
          origin, \* history: the call `result` came from, the object that
                  \* call evaluated or copied and the primitive it had then
          marks   \* history: the parent-marking calls that found their slot,
                  \* <<object, name>>, in call order
vars == <<heap, last, nops, result, origin, marks>>

\* Objects allocated by a call that the driver holds no reference to are
\* unreachable once the call is over: only the objects that existed before
\* the call (1..n0) and a newly allocated return value stay in the heap.
Reclaim(H, n0, ret) ==
  IF ret > n0
  THEN LET Ref(r) == IF r > n0 THEN n0 + 1 ELSE r IN
       [objs     |-> Append(SubSeq(H.objs, 1, n0),
                       [H.objs[ret] EXCEPT !.slots = Ref(@), !.parents = Ref(@),
                                           !.messages = Ref(@)]),
        slotsT   |-> Append(SubSeq(H.slotsT, 1, n0), H.slotsT[H.objs[ret].slots]),
        parentsT |-> Append(SubSeq(H.parentsT, 1, n0), H.parentsT[H.objs[ret].parents]),
        msgsT    |-> Append(SubSeq(H.msgsT, 1, n0), H.msgsT[H.objs[ret].messages])]
  ELSE [objs     |-> SubSeq(H.objs, 1, n0),
        slotsT   |-> SubSeq(H.slotsT, 1, n0),
        parentsT |-> SubSeq(H.parentsT, 1, n0),
        msgsT    |-> SubSeq(H.msgsT, 1, n0)]

setPrimitive(H, o, v)   == [H EXCEPT !.objs[o].primitive = v]
setPrimitiveFn(H, o, f) == [H EXCEPT !.objs[o].primitiveFn = f]
pushMessage(H, o, n)    == [H EXCEPT !.msgsT[H.objs[o].messages] = Append(@, n)]

RECURSIVE Construct(_, _)
Construct(H, n) == IF n = 0 THEN H ELSE Construct(NewSelfObject(H), n - 1)

\* ---- set-ups the driver starts from
\* NumObjs freshly constructed objects.
FreshObjects == Construct(EmptyHeap, NumObjs)

\* The objA / objB / objC example: 1 = objA, 2 = objB, 3 = objC.
ExampleABC ==
  LET H0 == setPrimitive(setPrimitive(setPrimitive(Construct(EmptyHeap, 3),
                1, IamA), 2, IamB), 3, IamC)
      H1 == assignParentSlot(assignSlot(H0, 1, "b", 2), 1, "c", 3)
  IN pushMessage(pushMessage(H1, 1, "b"), 1, "c")

\* The increment example: 1 = numberObj, 2 = addOne.
ExampleIncrement ==
  LET H0 == setPrimitiveFn(setPrimitive(Construct(EmptyHeap, 2), 1, Five), 2, AddOne)
  IN assignSlot(H0, 1, IncName, 2)

\* The diamond: 1 = A with parents b -> 2 (B) and c -> 3 (C), B and C each
\* with parent b -> 4 (D); no object has a slot "increment". A carries the
\* message list <<"increment", "b">>, whose first message nobody answers.
Diamond ==
  LET H0 == assignParentSlot(assignParentSlot(Construct(EmptyHeap, 4), 1, "b", 2),
                             1, "c", 3)
      H1 == assignParentSlot(assignParentSlot(H0, 2, "b", 4), 3, "b", 4)
  IN pushMessage(pushMessage(H1, 1, IncName), 1, "b")

\* Parent against grandparent: 1 = A with parents b -> 2 (B) and c -> 3 (C),
\* B with parent b -> 4 (D); D (depth 2, behind the first parent) and C
\* (depth 1, the second parent) both hold a slot "increment", with different
\* plain objects in it. A carries the message list <<"c", "increment">>.
Precedence ==
  LET H0 == assignParentSlot(assignParentSlot(Construct(EmptyHeap, 4), 1, "b", 2),
                             1, "c", 3)
      H1 == assignParentSlot(H0, 2, "b", 4)
      H2 == assignSlot(assignSlot(H1, 4, IncName, 4), 3, IncName, 3)
  IN pushMessage(pushMessage(H2, 1, "c"), 1, IncName)

\* Siblings marked against the order of their names and of their slots:
\* 1 = A with slot b -> 2 (B) assigned first, c -> 3 (C) assigned and marked
\* next, b marked last; B and C both hold a slot "increment", with
\* different plain objects in it.
Reversed ==
  LET H0 == assignSlot(Construct(EmptyHeap, 3), 1, "b", 2)
      H1 == makeParent(assignParentSlot(H0, 1, "c", 3), 1, "b")
  IN assignSlot(assignSlot(H1, 2, IncName, 2), 3, IncName, 3)

\* A parent marker on an inherited name: 1 = A, on which makeParent is
\* called with "constructor" before its parents b -> 2 (B) and c -> 3 (C)
\* are assigned; B and C both hold a slot "increment".
InheritedParent ==
  LET H0 == makeParent(Construct(EmptyHeap, 3), 1, CtorName)
      H1 == assignParentSlot(assignParentSlot(H0, 1, "b", 2), 1, "c", 3)
  IN assignSlot(assignSlot(H1, 2, IncName, 2), 3, IncName, 3)

\* Each set-up with the parent-marking calls that built it, in call order.
SetUps ==
  { [h |-> FreshObjects,     m |-> <<>>],
    [h |-> Reversed,         m |-> << <<1, "c">>, <<1, "b">> >>],
    [h |-> InheritedParent,  m |-> << <<1, CtorName>>, <<1, "b">>, <<1, "c">> >>],
    [h |-> ExampleABC,       m |-> << <<1, "c">> >>],
    [h |-> ExampleIncrement, m |-> <<>>],
    [h |-> Diamond,          m |-> << <<1, "b">>, <<1, "c">>, <<2, "b">>, <<3, "b">> >>],
    [h |-> Precedence,       m |-> << <<1, "b">>, <<1, "c">>, <<2, "b">> >>] }

\* ---- the argument sets of the driver's calls
Targets(H)   == ObjIds(H)                 \* objects it mutates
Values(H)    == ObjIds(H) \cup {JsNull}   \* what it stores in slots: objects, null
Receivers(H) == ObjIds(H) \cap (1..2)     \* objects it evaluates / sends to
Params(H)    == ObjIds(H) \cap (1..2)     \* objects it passes as parameter
SlotKeys     == SlotNames \cup InheritedNames  \* names it marks and sends
MsgNames     == SlotKeys

CallOps == {"copy", "evaluate", "dispatch", "dispatchWithParameter"}
\* (old: what the slot a mutating call wrote held before; prev: the call the
\* driver made just before a value-returning call)
NoPrev == [op |-> "none", recv |-> 0, name |-> "", param |-> 0, old |-> Undef]
NoCall == [op |-> "none", impl |-> "", recv |-> 0, name |-> "", param |-> 0,
           pre |-> EmptyHeap, ret |-> JsNull, err |-> NoErr, msg |-> "", log |-> <<>>,
           holder |-> JsNull, raw |-> JsNull, old |-> Undef, prev |-> NoPrev]
Mutation(op, o) == [NoCall EXCEPT !.op = op, !.recv = o]

NoOrigin == [op |-> "none", impl |-> "", subject |-> JsNull, primitive |-> JsNull]

Init ==
  /\ \E s \in SetUps : heap = s.h /\ marks = s.m
  /\ last = NoCall
  /\ nops = 0
  /\ result = Undef
  /\ origin = NoOrigin

\* ---- mutation calls
Mutated(op, o, n, v, H1) ==
  /\ nops < MaxOps
  /\ heap' = H1
  /\ last' = [Mutation(op, o) EXCEPT !.name = n, !.param = v,
                                     !.old = IF n = "" THEN Undef ELSE Get(heap, o, n)]
  /\ nops' = nops + 1
  /\ UNCHANGED <<result, origin>>

\* The history gains <<o, n>> when a parent-marking call on o names a slot
\* that holds an object at that moment.
Marked(o, n, v) == marks' = IF Truthy(v) THEN Append(marks, <<o, n>>) ELSE marks

AssignSlot ==
  \E o \in Targets(heap), n \in Names, v \in Values(heap) :
    /\ Mutated("assignSlot", o, n, v, assignSlot(heap, o, n, v))
    /\ UNCHANGED marks

MakeParent ==
  \E o \in Targets(heap), n \in SlotKeys :
    /\ Mutated("makeParent", o, n, 0, makeParent(heap, o, n))
    /\ Marked(o, n, Get(heap, o, n))

AssignParentSlot ==
  \E o \in Targets(heap), n \in SlotKeys, v \in Values(heap) :
    /\ Mutated("assignParentSlot", o, n, v, assignParentSlot(heap, o, n, v))
    /\ Marked(o, n, v)

\* obj.primitive = 5
SetPrimitive ==
  \E o \in Targets(heap) :
    /\ Mutated("setPrimitive", o, "", 0, setPrimitive(heap, o, Five))
    /\ UNCHANGED marks

\* obj.primitiveFn = (self) => { ... }
SetPrimitiveFn ==
  \E o \in Targets(heap) :
    /\ Mutated("setPrimitiveFn", o, "", 0, setPrimitiveFn(heap, o, AddOne))
    /\ UNCHANGED marks

\* obj.messages.push(name)
PushMessage ==
  \E o \in Targets(heap), n \in MsgNames :
    /\ Len(MessagesOf(heap, o)) < MaxMsgs
    /\ Mutated("pushMessage", o, "", 0, pushMessage(heap, o, n))
    /\ UNCHANGED marks

\* ---- calls that return a value
\* The driver makes one such call and assigns what it returns to its
\* variable: const result = obj.evaluate(). Objects the call allocated stay
\* in the heap only if returned (as object n0 + 1). A call that returns
\* null or throws leaves the variable null.
Called(op, impl, o, n, p, r) ==
  LET n0    == Len(heap.objs)
      fresh == r.ret > n0
  IN /\ result = Undef
     /\ heap' = Reclaim(r.h, n0, r.ret)
     /\ result' = IF fresh THEN n0 + 1 ELSE r.ret
     /\ origin' = LET s == IF op \in {"copy", "evaluate"} THEN o
                            ELSE IF r.holder = JsNull THEN JsNull
                            ELSE IF ~IsSelfObject(Get(heap, r.holder, n)) THEN JsNull
                            ELSE Get(heap, r.holder, n)
                   IN [op |-> op, impl |-> impl, subject |-> s,
                       primitive |-> IF s = JsNull THEN JsNull
                                     ELSE heap.objs[s].primitive]
     /\ last' = [op |-> op, impl |-> impl, recv |-> o, name |-> n, param |-> p,
                 pre |-> heap, ret |-> IF fresh THEN n0 + 1 ELSE r.ret,
                 err |-> r.err, msg |-> r.msg, log |-> r.log,
                 holder |-> r.holder, raw |-> r.ret, old |-> Undef,
                 prev |-> [op |-> last.op, recv |-> last.recv, name |-> last.name,
                           param |-> last.param, old |-> last.old]]
     /\ UNCHANGED <<nops, marks>>

Copy ==
  \E o \in Receivers(heap) :
    LET c == copy(heap, o) IN
    Called("copy", "", o, "", 0, Ret(c.h, c.ret, <<>>))

Evaluate ==
  \E o \in Receivers(heap) :
    Called("evaluate", "js", o, "", 0, evaluate(heap, o, StackLimit(heap)))

EvaluateP0 ==
  \E o \in Receivers(heap) :
    Called("evaluate", "p0", o, "", 0, evaluateP0(heap, o, StackLimit(heap)))

Dispatch ==
  \E o \in Receivers(heap), n \in MsgNames :
    Called("dispatch", "js", o, n, 0, sendAMessage(heap, o, n, StackLimit(heap)))

DispatchP0 ==
  \E o \in Receivers(heap), n \in MsgNames :
    Called("dispatch", "p0", o, n, 0,
           sendAMessageP0(heap, o, n, {}, StackLimit(heap)))

DispatchWithParameter ==
  \E o \in Receivers(heap), n \in MsgNames, p \in Params(heap) :
    Called("dispatchWithParameter", "js", o, n, p,
           sendAMessageWithParameters(heap, o, n, p, StackLimit(heap)))

DispatchWithParameterP0 ==
  \E o \in Receivers(heap), n \in MsgNames, p \in Params(heap) :
    Called("dispatchWithParameter", "p0", o, n, p,
           sendAMessageWithParametersP0(heap, o, n, p, StackLimit(heap)))

Next ==
  \/ AssignSlot
  \/ MakeParent
  \/ AssignParentSlot
  \/ SetPrimitive
  \/ SetPrimitiveFn
  \/ PushMessage
  \/ Copy
  \/ Evaluate
  \/ EvaluateP0
  \/ Dispatch
  \/ DispatchP0
  \/ DispatchWithParameter
  \/ DispatchWithParameterP0

Spec == Init /\ [][Next]_vars

\* ================================================================ claims
\* ---- definitions the claims are stated with (not taken from the code)
ObjView(H, o) ==
  [slots |-> SlotsOf(H, o), parents |-> ParentsOf(H, o),
   messages |-> MessagesOf(H, o),
   primitive |-> H.objs[o].primitive, primitiveFn |-> H.objs[o].primitiveFn]

\* The objects a parent-marked slot of o refers to.
ParentObjs(H, o) ==
  {v \in ObjIds(H) : \E i \in 1..Len(ParentsOf(H, o)) : Get(H, o, ParentsOf(H, o)[i]) = v}

\* The objects at the end of a path of exactly k parent edges from o.
RECURSIVE AtDistance(_, _, _)
AtDistance(H, o, k) ==
  IF k = 0 THEN {o}
  ELSE UNION {ParentObjs(H, a) : a \in AtDistance(H, o, k - 1)}

Ancestors(H, o) == UNION {AtDistance(H, o, k) : k \in 1..Len(H.objs)}
\* o.slots[name] reads truthy (what the lookups of the code test).
Holds(H, o, name) == Truthy(Get(H, o, name))
\* o.slots has a key `name` of its own / one that holds an object.
HasSlot(H, o, name) == Own(H, o, name) # Undef
Defines(H, o, name) == Truthy(Own(H, o, name))
\* No parent name of any object resolves to an inherited function.
NoInheritedParent(H) ==
  \A o \in ObjIds(H) : \A i \in 1..Len(ParentsOf(H, o)) :
    Get(H, o, ParentsOf(H, o)[i]) # ProtoFn
\* The parent-distances from o at which some object holds a slot `name`.
Depths(H, o, name) ==
  {k \in 1..Len(H.objs) : \E a \in AtDistance(H, o, k) : Holds(H, a, name)}
MinDepth(H, o, name) ==
  CHOOSE k \in Depths(H, o, name) : \A j \in Depths(H, o, name) : k <= j

\* What a call gave, for comparing two calls: the error, an object that
\* existed before the call by identity, a new object by content.
Outcome(H, n0, r) ==
  [err |-> r.err, msg |-> r.msg,
   old |-> IF r.ret > n0 THEN Undef ELSE r.ret,
   new |-> IF r.ret > n0 THEN <<ObjView(H, r.ret)>> ELSE <<>>]
LastOutcome == Outcome(heap, Len(last.pre.objs), last)

IsDispatch == last.op = "dispatch"
ViaParents == ~Holds(last.pre, last.recv, last.name)
\* The last call met no inherited name: none among the parent names of the
\* graph it started from, none sent, none in a message list.
OwnSlotsOnly ==
  /\ NoInheritedParent(last.pre)
  /\ last.name \notin InheritedNames
  /\ \A o \in ObjIds(last.pre) : \A i \in 1..Len(MessagesOf(last.pre, o)) :
       MessagesOf(last.pre, o)[i] \notin InheritedNames

\* C1 (depth precedence): a dispatch whose receiver lacks the slot while
\* some ancestor holds it selects the slot of an ancestor at the smallest
\* parent-distance from the receiver that holds it. (Stated for graphs
\* and names that involve no inherited name, the subject of C3 and C16.)
C1_DepthPrecedence ==
  (IsDispatch /\ OwnSlotsOnly /\ ViaParents
     /\ Depths(last.pre, last.recv, last.name) # {})
    => /\ last.holder \in
            AtDistance(last.pre, last.recv, MinDepth(last.pre, last.recv, last.name))
       /\ Holds(last.pre, last.holder, last.name)

\* C1 for the dispatch of src/SelfObject.js alone (holds; kept as evidence).
C1_DepthPrecedence_SelfObjectJs == last.impl = "js" => C1_DepthPrecedence

\* The marking calls on the receiver whose slot now refers to an object that
\* holds the slot asked for (positions in the history).
HoldingMarks ==
  {i \in 1..Len(marks) :
     /\ marks[i][1] = last.recv
     /\ IsSelfObject(Get(last.pre, last.recv, marks[i][2]))
     /\ Holds(last.pre, Get(last.pre, last.recv, marks[i][2]), last.name)}
FirstHoldingMark == CHOOSE i \in HoldingMarks : \A j \in HoldingMarks : i <= j

\* C2 (sibling order): a dispatch of src/SelfObject.js whose receiver lacks
\* the slot while parents of the receiver hold it selects the slot of the
\* parent whose name was marked first, whatever marking calls came later.
C2_SiblingOrder ==
  (IsDispatch /\ last.impl = "js" /\ ViaParents /\ HoldingMarks # {})
    => last.holder = Get(last.pre, last.recv, marks[FirstHoldingMark][2])

\* What src/SelfObject.js guarantees instead (holds; kept as evidence): the
\* first-marked holding parent is selected when no parent name of the graph
\* resolves to an inherited function.
C2_SiblingOrder_OwnParents == NoInheritedParent(last.pre) => C2_SiblingOrder

\* Reached: two parents of the receiver, different objects, both hold the
\* slot, and the one marked first is the one whose name and whose slot come
\* second; the first-marked one is selected.
C2_FirstMarkedSelected ==
  /\ IsDispatch /\ last.impl = "js" /\ ViaParents
  /\ \E i, j \in HoldingMarks :
       /\ i < j /\ marks[i][2] = "c" /\ marks[j][2] = "b"
       /\ Get(last.pre, last.recv, marks[i][2]) # Get(last.pre, last.recv, marks[j][2])
  /\ last.holder = Get(last.pre, last.recv, marks[FirstHoldingMark][2])

ExamineCount(o) ==
  Cardinality({i \in 1..Len(last.log) : last.log[i].e = "examine" /\ last.log[i].o = o})
NoHolder ==
  \A a \in Ancestors(last.pre, last.recv) \cup {last.recv} :
    ~Holds(last.pre, a, last.name)

\* Neither the receiver nor any ancestor has an object in a slot `name` of
\* its own.
NoDefiner ==
  \A a \in Ancestors(last.pre, last.recv) \cup {last.recv} :
    ~Defines(last.pre, a, last.name)

\* C3 (diamond/cycle termination): a dispatch for a name that neither the
\* receiver nor any ancestor has a slot for returns NotFound (null) without
\* an error, and its search examines no ancestor twice.
C3_MissTerminates ==
  (IsDispatch /\ NoDefiner)
    => /\ last.err = NoErr
       /\ last.ret = JsNull
       /\ \A o \in ObjIds(last.pre) : ExamineCount(o) <= 1

\* What both implementations guarantee instead (holds; kept as evidence):
\* the same for names and graphs that involve no inherited name.
C3_MissTerminates_OwnSlots == OwnSlotsOnly => C3_MissTerminates

\* Reached: the miss happens on a graph where the receiver is its own
\* ancestor and some ancestor is the parent of two different objects.
C3_CyclicDiamondMiss ==
  /\ IsDispatch /\ NoHolder /\ last.ret = JsNull
  /\ last.recv \in Ancestors(last.pre, last.recv)
  /\ \E d \in Ancestors(last.pre, last.recv) :
       /\ ExamineCount(d) = 1
       /\ \E a, b \in Ancestors(last.pre, last.recv) :
            a # b /\ d \in ParentObjs(last.pre, a) /\ d \in ParentObjs(last.pre, b)

\* An object whose evaluation runs its message chain.
IsChain(H, o) ==
  /\ H.objs[o].primitive = JsNull
  /\ H.objs[o].primitiveFn = NoFn
  /\ Len(MessagesOf(H, o)) > 0
IsEvaluate == last.op = "evaluate"
\* The messages the evaluation itself sent (positions in its log), and those
\* among them that dispatch could not resolve.
Sends  == {i \in 1..Len(last.log) : last.log[i].e = "send"}
Misses == {i \in Sends : last.log[i].r = JsNull /\ last.log[i].err = NoErr}
FirstMiss == CHOOSE i \in Misses : \A j \in Misses : i <= j

\* C4 (missing-message failure): when the evaluation of a chain object sends
\* a message that dispatch cannot resolve, the evaluation fails with
\* MessageNotFound naming that message, sends nothing after it and returns
\* no object.
C4_MissingMessageFails ==
  (IsEvaluate /\ IsChain(last.pre, last.recv) /\ Misses # {})
    => /\ last.err = "MessageNotFound"
       /\ last.msg = last.log[FirstMiss].n
       /\ \A j \in Sends : j <= FirstMiss
       /\ last.raw = JsNull

\* C4 for the evaluate of src/SelfObject.js alone (holds; kept as evidence).
C4_MissingMessageFails_SelfObjectJs == last.impl = "js" => C4_MissingMessageFails

\* C5 (chain threading): the evaluation of a chain object in which every
\* message resolves sends exactly its messages in order, the first to a new
\* object (the copy), each later one to the result of the one before, never
\* to the original or the copy, and returns the result of the last.
C5_ChainThreading ==
  (IsEvaluate /\ IsChain(last.pre, last.recv) /\ last.err = NoErr /\ Misses = {})
    => LET msgs == MessagesOf(last.pre, last.recv)
           n0   == Len(last.pre.objs)
       IN /\ Len(last.log) = Len(msgs)
          /\ \A i \in 1..Len(msgs) :
               /\ last.log[i].e = "send"
               /\ last.log[i].n = msgs[i]
               /\ i > 1 => /\ last.log[i].o = last.log[i - 1].r
                           /\ last.log[i].o \notin {last.recv, last.log[1].o}
          /\ last.log[1].o > n0
          /\ last.raw = last.log[Len(msgs)].r

\* C5 for the evaluate of src/SelfObject.js alone (holds; kept as evidence).
C5_ChainThreading_SelfObjectJs == last.impl = "js" => C5_ChainThreading

\* Reached under src/SelfObject.js: a two-message chain whose second message
\* went to the first one's result and gave the value returned.
C5_SelfObjectJs_Threaded ==
  /\ IsEvaluate /\ last.impl = "js" /\ IsChain(last.pre, last.recv)
  /\ last.err = NoErr /\ Len(last.log) = 2
  /\ last.log[2].o = last.log[1].r /\ last.raw = last.log[2].r
\* Reached under src/SelfObject.js: a chain whose second message misses.
C4_SelfObjectJs_Failed ==
  /\ IsEvaluate /\ last.impl = "js" /\ IsChain(last.pre, last.recv)
  /\ Misses # {} /\ FirstMiss = 2 /\ last.err = "MessageNotFound"

\* The object the call evaluated: the receiver of evaluate, the object in the
\* slot a message send selected (JsNull: the call evaluated nothing).
Subject ==
  IF IsEvaluate THEN last.recv
  ELSE IF /\ last.op \in {"dispatch", "dispatchWithParameter"} /\ last.holder # JsNull
          /\ IsSelfObject(Get(last.pre, last.holder, last.name))
  THEN Get(last.pre, last.holder, last.name)
  ELSE JsNull
\* What that evaluation did: the log of evaluate, the log of a message send
\* after the slot was selected.
Hits == {i \in 1..Len(last.log) : last.log[i].e = "hit"}
EvalLog ==
  IF IsEvaluate THEN last.log
  ELSE SubSeq(last.log, (CHOOSE i \in Hits : \A j \in Hits : j <= i) + 1, Len(last.log))
\* The object the native function finds in the "parameter" slot.
NativeArg ==
  IF last.op = "dispatchWithParameter" THEN last.param
  ELSE Get(last.pre, Subject, ParamName)
RetIsNew == last.ret > Len(last.pre.objs)
PlusOne(v) == (IF v = JsNull THEN 0 ELSE v) + 1

\* C6 (evaluation priority): what an evaluation does is fixed by the first
\* field present among primitive, native function, messages. With a
\* primitive: no native call, no send, a new object equal to the evaluated
\* one. Else with a native function: the native call alone, its result (or
\* its error) returned. Else with messages: sends. Else the object itself.
C6_EvaluationPriority ==
  Subject # JsNull =>
    LET S == last.pre.objs[Subject] IN
    /\ S.primitive # JsNull =>
         /\ EvalLog = <<>> /\ last.err = NoErr /\ RetIsNew
         /\ heap.objs[last.ret].primitive = S.primitive
         /\ heap.objs[last.ret].primitiveFn = S.primitiveFn
         /\ MessagesOf(heap, last.ret) = MessagesOf(last.pre, Subject)
    /\ (S.primitive = JsNull /\ S.primitiveFn # NoFn) =>
         /\ Len(EvalLog) = 1 /\ EvalLog[1].e = "native"
         /\ IF Truthy(NativeArg)
            THEN /\ last.err = NoErr /\ RetIsNew
                 /\ heap.objs[last.ret].primitive =
                      PlusOne(last.pre.objs[NativeArg].primitive)
            ELSE last.err = "TypeError"
    /\ IsChain(last.pre, Subject) =>
         /\ EvalLog # <<>>
         /\ \A i \in 1..Len(EvalLog) : EvalLog[i].e = "send"
         /\ EvalLog[1].n = MessagesOf(last.pre, Subject)[1]
    /\ (S.primitive = JsNull /\ S.primitiveFn = NoFn
          /\ MessagesOf(last.pre, Subject) = <<>>) =>
         /\ EvalLog = <<>> /\ last.err = NoErr
         /\ IF last.op = "dispatchWithParameter"
            THEN /\ RetIsNew
                 /\ ObjView(heap, last.ret) =
                      [ObjView(last.pre, Subject) EXCEPT !.slots[ParamName] = last.param]
            ELSE last.raw = Subject

\* C6 witness: an object carrying a primitive, a native function and
\* messages was evaluated: a new object came back, nothing was invoked or
\* sent.
C6_Witness ==
  /\ IsEvaluate /\ RetIsNew /\ last.log = <<>>
  /\ last.pre.objs[last.recv].primitive # JsNull
  /\ last.pre.objs[last.recv].primitiveFn # NoFn
  /\ MessagesOf(last.pre, last.recv) # <<>>
  /\ heap.objs[last.ret].primitive = last.pre.objs[last.recv].primitive

IsDispatchWithParameter == last.op = "dispatchWithParameter"
\* What a message send with parameter p gives when made on heap H by the
\* implementation of the last call.
SendWithParameter(H, p) ==
  LET r == IF last.impl = "js"
           THEN sendAMessageWithParameters(H, last.recv, last.name, p, StackLimit(H))
           ELSE sendAMessageWithParametersP0(H, last.recv, last.name, p, StackLimit(H))
  IN Outcome(r.h, Len(H.objs), r)

\* C7 (parameter isolation): a message send with parameter leaves every
\* object that existed before it exactly as it was (no "parameter" slot
\* gained or changed, on the slot's object, the holder or anything else),
\* and a later send with any parameter gives what it would have given had
\* the first send not been made.
C7_ParameterIsolation ==
  IsDispatchWithParameter =>
    /\ \A o \in ObjIds(last.pre) : ObjView(heap, o) = ObjView(last.pre, o)
    /\ \A p \in Params(last.pre) : SendWithParameter(heap, p) = SendWithParameter(last.pre, p)

\* C7 witness: the slot was matched on an ancestor, its object carried a
\* "parameter" binding of its own, the object returned carries the binding
\* of the call and the slot's object still carries its own.
C7_Witness ==
  /\ IsDispatchWithParameter /\ last.holder \notin {JsNull, last.recv}
  /\ RetIsNew /\ Get(heap, last.ret, ParamName) = last.param
  /\ Truthy(Get(last.pre, Subject, ParamName))
  /\ Get(heap, Subject, ParamName) = Get(last.pre, Subject, ParamName)
  /\ Get(heap, Subject, ParamName) # last.param

\* The holder the plain message send of the same implementation selects on
\* the heap the last call started from.
DispatchHolder ==
  IF last.impl = "js"
  THEN sendAMessage(last.pre, last.recv, last.name, StackLimit(last.pre)).holder
  ELSE sendAMessageP0(last.pre, last.recv, last.name, {}, StackLimit(last.pre)).holder

\* C8 (same traversal): a message send with parameter selects the slot of
\* the holder the plain message send selects for the same receiver and
\* name, and when no reachable object holds the slot it returns NotFound
\* (null) without an error. (Stated for graphs and names that involve no
\* inherited name, the subject of C3 and C16.)
C8_SameTraversal ==
  (IsDispatchWithParameter /\ OwnSlotsOnly) =>
    /\ last.holder = DispatchHolder
    /\ NoHolder => (last.err = NoErr /\ last.ret = JsNull)

\* C8 for sendAMessageWithParameters of src/SelfObject.js alone (holds; kept
\* as evidence).
C8_SameTraversal_SelfObjectJs == last.impl = "js" => C8_SameTraversal

\* Reached under src/SelfObject.js: a send with parameter misses on a graph
\* in which the receiver is its own ancestor.
C8_SelfObjectJs_CyclicMiss ==
  /\ IsDispatchWithParameter /\ last.impl = "js" /\ NoHolder
  /\ last.recv \in Ancestors(last.pre, last.recv)
  /\ last.err = NoErr /\ last.ret = JsNull

\* The containers of object o are containers of no object that existed
\* before the last call.
OwnContainers(o) ==
  \A q \in ObjIds(last.pre) :
    /\ heap.objs[o].slots # heap.objs[q].slots
    /\ heap.objs[o].parents # heap.objs[q].parents
    /\ heap.objs[o].messages # heap.objs[q].messages
\* A step in which the driver makes a mutating call on object t.
MutationOn(t) == nops' = nops + 1 /\ last'.recv = t

C10_PrimitiveEvaluation ==
  /\ []((last.op \in {"evaluate", "dispatch"} /\ Subject # JsNull
           /\ last.pre.objs[Subject].primitive # JsNull) =>
          /\ last.err = NoErr /\ RetIsNew /\ last.ret # Subject
          /\ heap.objs[last.ret].primitive = last.pre.objs[Subject].primitive
          /\ OwnContainers(last.ret))
  /\ [][(origin.op \in {"evaluate", "dispatch"} /\ origin.primitive # JsNull
           /\ MutationOn(result)) =>
          ObjView(heap', origin.subject) = ObjView(heap, origin.subject)]_vars

\* C10 witness: a message send selected a slot holding an object with a
\* primitive; a slot was then assigned on the result, which the evaluated
\* object does not show.
C10_Witness ==
  /\ origin.op = "dispatch" /\ origin.primitive # JsNull
  /\ last.op = "assignSlot" /\ last.recv = result /\ result # origin.subject
  /\ heap.objs[result].primitive = origin.primitive
  /\ SlotsOf(heap, result) # SlotsOf(heap, origin.subject)

\* The call evaluated an object with a native function and no primitive.
NativeSubject ==
  /\ Subject # JsNull
  /\ last.pre.objs[Subject].primitive = JsNull
  /\ last.pre.objs[Subject].primitiveFn = AddOne

\* C11 (native function with parameter): evaluating an object with a native
\* function and no primitive invokes the function once, on the object (src/
\* SelfObject.js), with the value bound to its "parameter" slot (absent if
\* unset), and what the function gives is the outcome: a new object with
\* the parameter's primitive plus one, TypeError without a parameter. In
\* the increment example the send with parameter numberObj gives 6.
C11_NativeWithParameter ==
  /\ NativeSubject =>
       /\ Len(EvalLog) = 1 /\ EvalLog[1].e = "native"
       /\ EvalLog[1].r = NativeArg
       /\ (last.impl = "js" /\ last.op \in {"evaluate", "dispatch"}) =>
            EvalLog[1].o = Subject
       /\ IF Truthy(NativeArg)
          THEN /\ last.err = NoErr /\ RetIsNew
               /\ ObjView(heap, last.ret) =
                    [ObjView(NewSelfObject(EmptyHeap), 1) EXCEPT
                       !.primitive = PlusOne(last.pre.objs[NativeArg].primitive)]
          ELSE last.err = "TypeError" /\ last.ret = JsNull
  /\ (IsDispatchWithParameter /\ last.pre = ExampleIncrement /\ last.recv = 1
        /\ last.name = IncName /\ last.param = 1) =>
       (last.err = NoErr /\ RetIsNew /\ heap.objs[last.ret].primitive = Five + 1)

\* C11 witness: the increment example as set up by the driver, sent with
\* numberObj as parameter: a new object with primitive 6.
C11_Witness ==
  /\ IsDispatchWithParameter /\ last.pre = ExampleIncrement
  /\ last.recv = 1 /\ last.name = IncName /\ last.param = 1
  /\ RetIsNew /\ heap.objs[last.ret].primitive = 6

InParents(H, o, n) == \E i \in 1..Len(ParentsOf(H, o)) : ParentsOf(H, o)[i] = n
\* A step in which makeParent runs on object o for name n: called by the
\* driver, or by assignParentSlot after it has assigned the slot.
MakeParentRuns ==
  nops' = nops + 1 /\ last'.op \in {"makeParent", "assignParentSlot"}

\* C12 (makeParent is conditional): makeParent puts the name in the
\* object's parents if and only if the object has a slot of that name at
\* that moment, whatever the slot holds; called for a name without a slot
\* it changes nothing; it never changes slots or messages.
C12_MakeParentConditional ==
  [][MakeParentRuns =>
       LET o == last'.recv  n == last'.name IN
       /\ InParents(heap', o, n) <=> (InParents(heap, o, n) \/ HasSlot(heap', o, n))
       /\ MessagesOf(heap', o) = MessagesOf(heap, o)
       /\ last'.op = "makeParent" => SlotsOf(heap', o) = SlotsOf(heap, o)
       /\ (last'.op = "makeParent" /\ ~HasSlot(heap, o, n)) =>
            ObjView(heap', o) = ObjView(heap, o)]_vars

\* What src/SelfObject.js does instead (holds; kept as evidence): the name
\* is added if and only if the slot reads truthy.
C12_MakeParentTruthy ==
  [][MakeParentRuns =>
       LET o == last'.recv  n == last'.name IN
       /\ InParents(heap', o, n) <=> (InParents(heap, o, n) \/ Truthy(Get(heap', o, n)))
       /\ MessagesOf(heap', o) = MessagesOf(heap, o)
       /\ last'.op = "makeParent" => ObjView(heap', o).slots = ObjView(heap, o).slots
       /\ (last'.op = "makeParent" /\ Get(heap, o, n) = Undef) =>
            ObjView(heap', o) = ObjView(heap, o)]_vars

\* Reached: makeParent was called for a name without a slot and added
\* nothing.
C12_MissingSlotIgnored ==
  /\ last.op = "makeParent" /\ last.old = Undef
  /\ Get(heap, last.recv, last.name) = Undef
  /\ ~InParents(heap, last.recv, last.name)

IsRawDispatch == last.op \in {"dispatch", "dispatchWithParameter"}
\* No object of the graph the call started from has a native function.
NoNativeFn == \A o \in ObjIds(last.pre) : last.pre.objs[o].primitiveFn = NoFn

\* C13 (raw dispatch never fails): a message send, with or without
\* parameter, returns an object or NotFound (null) and raises no failure,
\* also when the slot it selects holds a message-chain object. (Stated for
\* graphs without native functions, whose own errors are not at issue, for
\* sends whose evaluation does not run out of stack, and for graphs and
\* names that involve no inherited name, the subject of C3 and C16.)
C13_RawDispatchNeverFails ==
  (IsRawDispatch /\ last.impl = "js" /\ NoNativeFn /\ last.err # "RangeError"
     /\ OwnSlotsOnly)
    => last.err = NoErr

\* What src/SelfObject.js guarantees instead (holds; kept as evidence): a
\* send that selects no slot returns null without failure, and a failure
\* is always that of the evaluation of the selected slot's object.
C13_OwnMissNeverFails ==
  (IsRawDispatch /\ last.impl = "js" /\ OwnSlotsOnly) =>
    /\ last.holder = JsNull => (last.err = NoErr /\ last.ret = JsNull)
    /\ last.err # NoErr => (last.holder # JsNull /\ EvalLog # <<>>)

IsCall == last.op \in {"evaluate", "dispatch", "dispatchWithParameter"}
\* No object of the graph the call started from has messages.
NoChains == \A o \in ObjIds(last.pre) : MessagesOf(last.pre, o) = <<>>

\* C14 (every operation runs to completion): on a graph without native
\* functions, evaluate and the two message sends end with a result, with
\* NotFound (null) or with MessageNotFound, also when slots lead from a
\* message-chain object back to itself. (Stated for graphs and names that
\* involve no inherited name, the subject of C3 and C16.)
C14_RunsToCompletion ==
  (IsCall /\ last.impl = "js" /\ NoNativeFn /\ OwnSlotsOnly)
    => last.err \in {NoErr, "MessageNotFound"}

\* Holds for src/SelfObject.js (kept as evidence): on a graph without
\* message-chain objects and inherited names every call returns.
C14_ReturnsWithoutChains ==
  (IsCall /\ last.impl = "js" /\ NoNativeFn /\ NoChains /\ OwnSlotsOnly)
    => last.err = NoErr

\* The call the driver made just before this message send overwrote, on the
\* receiver, a slot that is marked as parent and held another object.
Reassigned ==
  /\ last.prev.op = "assignSlot" /\ last.prev.recv = last.recv
  /\ InParents(last.pre, last.recv, last.prev.name)
  /\ Truthy(last.prev.old) /\ last.prev.old # last.prev.param
\* The objects the parent search of the send looked at.
Examined == {last.log[i].o : i \in {j \in 1..Len(last.log) : last.log[j].e = "examine"}}
\* A step in which the driver calls assignSlot.
AssignSlotStep == nops' = nops + 1 /\ last'.op = "assignSlot"
\* assignSlot sets the one slot and leaves parents and other slots alone.
AssignSlotOnly ==
  LET o == last'.recv  n == last'.name IN
  /\ Get(heap', o, n) = last'.param
  /\ \A m \in Names \ {n} : Get(heap', o, m) = Get(heap, o, m)
  /\ \A q \in ObjIds(heap) : ParentsOf(heap', q) = ParentsOf(heap, q)

IsEmptyObject(H, o) ==
  /\ \A n \in Names : ~HasSlot(H, o, n)
  /\ ParentsOf(H, o) = <<>> /\ MessagesOf(H, o) = <<>>
  /\ H.objs[o].primitiveFn = NoFn

\* C16 (no dangling parent markers): in every state, every name in the
\* parents of an object is a key of that object's slots; an object just
\* constructed (the driver's objects before any call on them, the object a
\* native function creates) has no slots, parents, messages or native
\* function, and no primitive until one is stored in it.
C16_NoDanglingParents ==
  /\ \A o \in ObjIds(heap) : \A i \in 1..Len(ParentsOf(heap, o)) :
       HasSlot(heap, o, ParentsOf(heap, o)[i])
  /\ (last.op = "none" /\ marks = <<>>) =>
       \A o \in ObjIds(heap) :
         /\ IsEmptyObject(heap, o) => heap.objs[o].primitive = JsNull
         /\ (heap.objs[o].primitive = JsNull /\ heap.objs[o].primitiveFn = NoFn)
              => IsEmptyObject(heap, o)
  /\ (NativeSubject /\ last.err = NoErr /\ IsCall) =>
       (RetIsNew /\ IsEmptyObject(heap, last.ret))

\* What the code guarantees instead (holds; kept as evidence): every name
\* in the parents of an object is a key of its slots or a name the slots
\* literal inherits.
C16_ParentsOwnOrInherited ==
  \A o \in ObjIds(heap) : \A i \in 1..Len(ParentsOf(heap, o)) :
    HasSlot(heap, o, ParentsOf(heap, o)[i]) \/ ParentsOf(heap, o)[i] \in InheritedNames

\* Reached: makeParent was called for an inherited name on an object
\* without slots and the name is now in its parents.
C16_InheritedNameMarked ==
  /\ last.op = "makeParent" /\ last.name \in InheritedNames
  /\ \A n \in Names : ~HasSlot(heap, last.recv, n)
  /\ InParents(heap, last.recv, last.name)

\* C17 (no side effects): evaluate and the plain message send leave the
\* slots, parents, messages, primitive and native function of every object
\* that existed before the call as they were, whether the call returns or
\* fails with MessageNotFound part-way through a chain.
C17_NoSideEffects ==
  last.op \in {"evaluate", "dispatch"} =>
    /\ Len(heap.objs) >= Len(last.pre.objs)
    /\ \A o \in ObjIds(last.pre) : ObjView(heap, o) = ObjView(last.pre, o)

\* C17 witness: an evaluation resolved its first message, failed on the
\* second with MessageNotFound and left every object as it was.
C17_Witness ==
  /\ IsEvaluate /\ last.impl = "js" /\ IsChain(last.pre, last.recv)
  /\ last.err = "MessageNotFound" /\ Len(last.log) = 2
  /\ Truthy(last.log[1].r) /\ last.msg = last.log[2].n
  /\ \A o \in ObjIds(last.pre) : ObjView(heap, o) = ObjView(last.pre, o)

\* The driver evaluates objA of the bundled example as set up.
ExampleEvaluated == IsEvaluate /\ last.pre = ExampleABC /\ last.recv = 1

\* C18 (bundled example): with the objA / objB / objC set-up of the
\* example, evaluate(objA) returns an object whose primitive is "I am C".
C18_ExampleShowsC ==
  ExampleEvaluated =>
    (last.err = NoErr /\ last.ret # JsNull /\ heap.objs[last.ret].primitive = IamC)

\* What the code gives (holds; kept as evidence): objA has a primitive, so
\* its evaluation is a new copy of objA, primitive "I am A", and no message
\* is sent.
C18_ExampleShowsA ==
  ExampleEvaluated =>
    /\ last.err = NoErr /\ RetIsNew /\ last.log = <<>>
    /\ heap.objs[last.ret].primitive = IamA

====
